---- MODULE Spec2Model ----
(***************************************************************************)
(* Model of the civic issue-reporting backend (src/main.py): two           *)
(* process-wide lists, users_db and reports_db, and six HTTP handlers.     *)
(*                                                                         *)
(* Spec      runs every handler atomically, one request at a time.         *)
(* SpecConc  runs the two writing handlers as in-flight requests whose     *)
(*           read of users_db and append are separate steps (FastAPI runs  *)
(*           plain `def` endpoints on a thread pool, without a lock).      *)
(* SpecLogin runs logins against registrations in flight.                  *)
(***************************************************************************)
EXTENDS Naturals, Sequences, FiniteSets

VARIABLES users_db, reports_db, resp, inflight

vars == <<users_db, reports_db, resp, inflight>>

(***************************************************************************)
(* Bounds and input sets                                                   *)
(***************************************************************************)
MaxReports == 2

NumRequests == 3

\* Python's None.  Texts of the input sets never equal it.
None == "<None>"

Emails == {"a@x.com", "b@x.com"}

Passwords == {"p", "q"}

Types == {"authority", "community", "other"}

Issues == {"Pothole"}

OptCategory == {None, "", "Roads"}

OptAlertLevel == {None, "", "Red"}

\* class User: six required text fields.
User ==
    [name : {"A"}, email : Emails, password : Passwords,
     role : {"user"}, phone : {"1"}, location : {"L"}]

\* class UserLogin.
UserLogin == [email : Emails, password : Passwords]

\* class Report: category, photo and alertLevel are Optional, default None.
\* The clients modelled send category only with an authority report and
\* alertLevel only with a community alert, each absent, empty or a text.
Report ==
    {r \in [email : Emails, type : Types, category : OptCategory,
            issue : Issues, description : {"d"}, location : {"L"},
            photo : {None}, alertLevel : OptAlertLevel] :
        /\ r.type # "authority" => r.category = None
        /\ r.type # "community" => r.alertLevel = None}

(***************************************************************************)
(* Python helpers                                                          *)
(***************************************************************************)
\* As Falsy, but only None counts as missing.
FalsyNoneOnly(v) == v = None

\* `not v` for an Optional[str]: None and the empty text are falsy.
Falsy(v) == v = None \/ v = ""

\* dict.get(key, default): the default is used only when the key is absent.
Get(d, key, default) == IF key \in DOMAIN d THEN d[key] ELSE default

\* d[key] raises KeyError when the key is absent.
HasKey(d, key) == key \in DOMAIN d

\* pydantic accepts a value for a `str` field unless it is None.
IsStr(v) == v # None

\* report.get("status") == "Resolved"
IsResolved(report) == Get(report, "status", None) = "Resolved"

\* report.get("seriousness") in ["High", "Critical"]
IsHighPriority(report) == Get(report, "seriousness", None) \in {"High", "Critical"}

\* sum(1 for report in db if report.get("status") == "Resolved")
CountResolved(db) == Len(SelectSeq(db, IsResolved))

\* user.dict(): the six fields of the model, nothing else.
UserDict(user) ==
    [name |-> user.name, email |-> user.email, password |-> user.password,
     role |-> user.role, phone |-> user.phone, location |-> user.location]

\* As ReportDict, with a date stamped on the stored record.
ReportDictWithDate(report) ==
    [email |-> report.email, type |-> report.type,
     category |-> report.category, issue |-> report.issue,
     description |-> report.description, location |-> report.location,
     photo |-> report.photo, alertLevel |-> report.alertLevel,
     date |-> "2024-01-01"]

\* report.dict(): the eight fields of the model (None where not supplied);
\* no seriousness, status or date key.
ReportDict(report) ==
    [email |-> report.email, type |-> report.type,
     category |-> report.category, issue |-> report.issue,
     description |-> report.description, location |-> report.location,
     photo |-> report.photo, alertLevel |-> report.alertLevel]

HTTPException(op, code, detail) ==
    [op |-> op, status |-> code, body |-> [detail |-> detail]]

\* An exception that no handler catches: the server answers 500.
Uncaught(op, error) ==
    [op |-> op, status |-> 500, body |-> [error |-> error]]

Ok(op, body) == [op |-> op, status |-> 200, body |-> body]

\* What a handler leaves behind: its response and the two lists.
Result(response, users, reports) ==
    [resp |-> response, users_db |-> users, reports_db |-> reports]

\* A handler that ran to completion.
Handled(result) ==
    /\ resp' = result.resp
    /\ users_db' = result.users_db
    /\ reports_db' = result.reports_db
    /\ UNCHANGED inflight

(***************************************************************************)
(* /register                                                               *)
(***************************************************************************)
\* As EmailInUse, but only the most recent record is compared.
EmailInUseLastOnly(db, email) == db # <<>> /\ db[Len(db)].email = email

\* any(u['email'] == email for u in users_db)
EmailInUse(db, email) == \E i \in 1..Len(db) : db[i].email = email

register_user(users, reports, user) ==
    IF EmailInUse(users, user.email)
    THEN Result(HTTPException("register", 400,
                              "User with this email already exists"),
                users, reports)
    ELSE Result(Ok("register", [message |-> "User registered successfully"]),
                Append(users, UserDict(user)), reports)

(***************************************************************************)
(* /login                                                                  *)
(***************************************************************************)
\* As LoginResponse, but any record of the email with the password logs in.
LoginResponseAnyMatch(db, user) ==
    LET matches == SelectSeq(db, LAMBDA u :
                       u.email = user.email /\ u.password = user.password)
        found_user == Head(matches)
    IN  IF matches = <<>>
        THEN [op |-> "login", status |-> 401,
              body |-> [detail |-> "Invalid email or password"]]
        ELSE [op |-> "login", status |-> 200,
              body |-> [message |-> "Login successful",
                        user |-> [name |-> found_user.name,
                                  email |-> found_user.email,
                                  role |-> found_user.role,
                                  location |-> found_user.location]]]

\* (u for u in db if u['email'] == email): the matches, in list order.
Matching(db, email) == SelectSeq(db, LAMBDA u : u.email = email)

\* next(..., None) takes the first match; without one found_user is None
\* and `not found_user` holds (a user record is never an empty dict).
LoginResponse(db, user) ==
    LET matches == Matching(db, user.email)
        found_user == Head(matches)
    IN  IF matches = <<>>
        THEN HTTPException("login", 401, "Invalid email or password")
        ELSE IF found_user.password # user.password
        THEN HTTPException("login", 401, "Invalid email or password")
        ELSE Ok("login",
                [message |-> "Login successful",
                 user |-> [name |-> found_user.name,
                           email |-> found_user.email,
                           role |-> found_user.role,
                           location |-> found_user.location]])

login_user(users, reports, user) ==
    Result(LoginResponse(users, user), users, reports)

(***************************************************************************)
(* /report                                                                 *)
(***************************************************************************)
\* As ReportCheck, with the field checks before the user check.
ReportCheckFieldsFirst(db, report) ==
    IF report.type = "authority" /\ Falsy(report.category)
    THEN HTTPException("report", 400,
                       "Category is required for authority reports")
    ELSE IF report.type = "community" /\ Falsy(report.alertLevel)
    THEN HTTPException("report", 400,
                       "Alert level is required for community alerts")
    ELSE IF ~EmailInUse(db, report.email)
    THEN HTTPException("report", 404, "User not found")
    ELSE Ok("report", [message |-> "Report submitted successfully"])

\* As ReportCheck, without the user check.
ReportCheckNoUser(db, report) ==
    IF report.type = "authority" /\ Falsy(report.category)
    THEN HTTPException("report", 400,
                       "Category is required for authority reports")
    ELSE IF report.type = "community" /\ Falsy(report.alertLevel)
    THEN HTTPException("report", 400,
                       "Alert level is required for community alerts")
    ELSE Ok("report", [message |-> "Report submitted successfully"])

\* The outcome of the checks of submit_report: 404, 400 or 200.
ReportCheck(db, report) ==
    IF ~EmailInUse(db, report.email)
    THEN HTTPException("report", 404, "User not found")
    ELSE IF report.type = "authority" /\ Falsy(report.category)
    THEN HTTPException("report", 400,
                       "Category is required for authority reports")
    ELSE IF report.type = "community" /\ Falsy(report.alertLevel)
    THEN HTTPException("report", 400,
                       "Alert level is required for community alerts")
    ELSE Ok("report", [message |-> "Report submitted successfully"])

submit_report(users, reports, report) ==
    LET checked == ReportCheck(users, report)
    IN  IF checked.status = 200
        THEN Result(checked, users, Append(reports, ReportDict(report)))
        ELSE Result(checked, users, reports)

(***************************************************************************)
(* /reports                                                                *)
(***************************************************************************)
\* One element of issues_data.
IssueData(db, index) ==
    [id |-> index,
     title |-> db[index].issue,
     category |-> db[index].category,
     location |-> db[index].location,
     seriousness |-> Get(db[index], "seriousness", "Moderate"),
     description |-> db[index].description]

\* class ReportOut: every field but id is a required str.
ReportOut(item) ==
    /\ IsStr(item.title)
    /\ IsStr(item.category)
    /\ IsStr(item.location)
    /\ IsStr(item.seriousness)
    /\ IsStr(item.description)

\* response_model=List[ReportOut]: the list is validated before it is sent.
ReportsResponse(db) ==
    LET issues_data == [index \in 1..Len(db) |-> IssueData(db, index)]
    IN  IF \A index \in 1..Len(db) : ReportOut(issues_data[index])
        THEN Ok("reports", [items |-> issues_data])
        ELSE Uncaught("reports", "ResponseValidationError")

get_all_reports(users, reports) ==
    Result(ReportsResponse(reports), users, reports)

(***************************************************************************)
(* /user-dashboard                                                         *)
(***************************************************************************)
\* [report for report in db if report['email'] == email]
UserReports(db, email) == SelectSeq(db, LAMBDA report : report.email = email)

\* The arguments of one ReportHistoryItem(...).
HistoryItem(user_reports, index) ==
    [id |-> index,
     title |-> user_reports[index].issue,
     category |-> user_reports[index].category,
     status |-> Get(user_reports[index], "status", "Unresolved")]

\* class ReportHistoryItem: title, category and status are required str.
ReportHistoryItem(item) ==
    /\ IsStr(item.title)
    /\ IsStr(item.category)
    /\ IsStr(item.status)

\* f"Your report '{issue}' has been marked as resolved."
Notification(report) ==
    <<"Your report '", report.issue, "' has been marked as resolved.">>

UserDashboardResponse(db, email) ==
    LET user_reports == UserReports(db, email)
        total_reports == Len(user_reports)
        resolved_reports == CountResolved(user_reports)
        unresolved_reports == total_reports - resolved_reports
        report_history ==
            [index \in 1..total_reports |-> HistoryItem(user_reports, index)]
        resolved == SelectSeq(user_reports, IsResolved)
        notifications ==
            [index \in 1..Len(resolved) |-> Notification(resolved[index])]
    IN  IF \E index \in 1..total_reports :
              ~ReportHistoryItem(report_history[index])
        THEN Uncaught("user-dashboard", "ValidationError")
        ELSE Ok("user-dashboard",
                [userStats |-> [totalReports |-> total_reports,
                                resolvedReports |-> resolved_reports,
                                unresolvedReports |-> unresolved_reports],
                 reportHistory |-> report_history,
                 notifications |-> notifications])

get_user_dashboard(users, reports, email) ==
    Result(UserDashboardResponse(reports, email), users, reports)

(***************************************************************************)
(* /authority-dashboard                                                    *)
(***************************************************************************)
\* The keys of category_counts in insertion (first-seen) order.
RECURSIVE CategoryKeys(_, _)
CategoryKeys(db, seen) ==
    IF db = <<>> THEN seen
    ELSE LET category == Get(Head(db), "category", "Other")
         IN  IF \E i \in 1..Len(seen) : seen[i] = category
             THEN CategoryKeys(Tail(db), seen)
             ELSE CategoryKeys(Tail(db), Append(seen, category))

\* category_counts.items() as IssueByCategory arguments.
IssuesByCategory(db) ==
    LET keys == CategoryKeys(db, <<>>)
    IN  [k \in 1..Len(keys) |->
            [category |-> keys[k],
             count |-> Len(SelectSeq(db, LAMBDA report :
                           Get(report, "category", "Other") = keys[k]))]]

\* The keys of seriousness_counts, in the order the dict literal lists them.
SeriousnessKeys == <<"Low", "Moderate", "High", "Critical">>

\* seriousness_counts.items() as IssueBySeriousness arguments.
IssuesBySeriousness(db) ==
    [k \in 1..Len(SeriousnessKeys) |->
        [seriousness |-> SeriousnessKeys[k],
         count |-> Len(SelectSeq(db, LAMBDA report :
                       Get(report, "seriousness", "Moderate")
                           = SeriousnessKeys[k]))]]

\* The arguments of one IssueManagementItem(...); report['date'] must exist.
IssueManagementItem(db, index) ==
    [id |-> index,
     title |-> db[index].issue,
     category |-> db[index].category,
     date |-> db[index].date,
     seriousness |-> Get(db[index], "seriousness", "Moderate"),
     status |-> Get(db[index], "status", "Unresolved")]

AuthorityDashboardResponse(db) ==
    LET total_reports == Len(db)
        resolved_reports == CountResolved(db)
        unresolved_reports == total_reports - resolved_reports
        high_priority_reports == Len(SelectSeq(db, IsHighPriority))
        issues_by_category == IssuesByCategory(db)
    IN  IF \E k \in 1..Len(issues_by_category) :
              ~IsStr(issues_by_category[k].category)
        THEN Uncaught("authority-dashboard", "ValidationError")
        ELSE IF \E index \in 1..total_reports :
              Get(db[index], "seriousness", "Moderate")
                  \notin {SeriousnessKeys[k] : k \in 1..Len(SeriousnessKeys)}
        THEN Uncaught("authority-dashboard", "KeyError")
        ELSE IF \E index \in 1..total_reports : ~HasKey(db[index], "date")
        THEN Uncaught("authority-dashboard", "KeyError")
        ELSE IF \E index \in 1..total_reports :
              \/ ~IsStr(db[index].category)
              \/ ~IsStr(db[index].date)
        THEN Uncaught("authority-dashboard", "ValidationError")
        ELSE Ok("authority-dashboard",
                [globalStats |->
                    [totalReports |-> total_reports,
                     resolvedReports |-> resolved_reports,
                     unresolvedReports |-> unresolved_reports,
                     highPriorityReports |-> high_priority_reports],
                 issuesByCategory |-> issues_by_category,
                 issuesBySeriousness |-> IssuesBySeriousness(db),
                 issueList |->
                    [index \in 1..total_reports |->
                        IssueManagementItem(db, index)]])

get_authority_dashboard(users, reports) ==
    Result(AuthorityDashboardResponse(reports), users, reports)

(***************************************************************************)
(* One request at a time: every handler runs to completion.                *)
(***************************************************************************)
NoResponse == [op |-> "none", status |-> 0, body |-> [none |-> TRUE]]

\* A request that no worker has picked up yet.
NoArg == [email |-> None]

NewRequest == [pc |-> "new", kind |-> "none", arg |-> NoArg, status |-> 0]

Init ==
    /\ users_db = <<>>
    /\ reports_db = <<>>
    /\ resp = NoResponse
    /\ inflight = [t \in 1..NumRequests |-> NewRequest]

Register ==
    \E user \in User : Handled(register_user(users_db, reports_db, user))

Login ==
    \E user \in UserLogin : Handled(login_user(users_db, reports_db, user))

\* The report store of the model holds at most MaxReports records.
SubmitReport ==
    \E report \in Report :
        LET result == submit_report(users_db, reports_db, report)
        IN  /\ Len(result.reports_db) <= MaxReports
            /\ Handled(result)

GetAllReports == Handled(get_all_reports(users_db, reports_db))

GetUserDashboard ==
    \E email \in Emails :
        Handled(get_user_dashboard(users_db, reports_db, email))

GetAuthorityDashboard == Handled(get_authority_dashboard(users_db, reports_db))

Next ==
    \/ Register
    \/ Login
    \/ SubmitReport
    \/ GetAllReports
    \/ GetUserDashboard
    \/ GetAuthorityDashboard

Spec == Init /\ [][Next]_vars

(***************************************************************************)
(* Requests in flight.  A worker thread runs each handler; between the     *)
(* scan of users_db and the append another worker may run.  The scan is    *)
(* one step (the lists only grow, so a finer scan sees no other outcome),  *)
(* and the field checks of /report read only the request.                  *)
(***************************************************************************)
\* The response is sent: a failed request keeps no local, a successful one
\* the record it appended.
Done(kind, arg, status) ==
    [pc |-> "done", kind |-> kind, arg |-> arg, status |-> status]

\* register_user up to, and not including, users_db.append.
RegisterCheck(t, user) ==
    /\ inflight[t].pc = "new"
    /\ inflight' =
         [inflight EXCEPT ![t] =
            IF EmailInUse(users_db, user.email)
            THEN Done("register", NoArg, 400)
            ELSE [pc |-> "reg_append", kind |-> "register",
                  arg |-> user, status |-> 0]]
    /\ UNCHANGED <<users_db, reports_db, resp>>

\* As RegisterAppend, but the email is looked up again before the append.
RegisterAppendRecheck(t) ==
    /\ inflight[t].pc = "reg_append"
    /\ IF EmailInUse(users_db, inflight[t].arg.email)
       THEN /\ users_db' = users_db
            /\ inflight' = [inflight EXCEPT ![t] = Done("register", NoArg, 400)]
       ELSE /\ users_db' = Append(users_db, UserDict(inflight[t].arg))
            /\ inflight' = [inflight EXCEPT ![t] = Done("register", @.arg, 200)]
    /\ UNCHANGED <<reports_db, resp>>

\* users_db.append(user.dict()) and the return.
RegisterAppend(t) ==
    /\ inflight[t].pc = "reg_append"
    /\ users_db' = Append(users_db, UserDict(inflight[t].arg))
    /\ inflight' = [inflight EXCEPT ![t] = Done("register", @.arg, 200)]
    /\ UNCHANGED <<reports_db, resp>>

\* submit_report up to, and not including, reports_db.append.
SubmitCheck(t, report) ==
    /\ inflight[t].pc = "new"
    /\ inflight' =
         [inflight EXCEPT ![t] =
            LET checked == ReportCheck(users_db, report)
            IN  IF checked.status = 200
                THEN [pc |-> "rep_append", kind |-> "report",
                      arg |-> report, status |-> 0]
                ELSE Done("report", NoArg, checked.status)]
    /\ UNCHANGED <<users_db, reports_db, resp>>

\* reports_db.append(report.dict()) and the return.
SubmitAppend(t) ==
    /\ inflight[t].pc = "rep_append"
    /\ reports_db' = Append(reports_db, ReportDict(inflight[t].arg))
    /\ inflight' = [inflight EXCEPT ![t] = Done("report", @.arg, 200)]
    /\ UNCHANGED <<users_db, resp>>

ConcRegisterCheck == \E t \in 1..NumRequests, user \in User : RegisterCheck(t, user)

ConcRegisterAppend == \E t \in 1..NumRequests : RegisterAppend(t)

ConcSubmitCheck == \E t \in 1..NumRequests, report \in Report : SubmitCheck(t, report)

ConcSubmitAppend == \E t \in 1..NumRequests : SubmitAppend(t)

NextConc ==
    \/ ConcRegisterCheck
    \/ ConcRegisterAppend
    \/ ConcSubmitCheck
    \/ ConcSubmitAppend

SpecConc == Init /\ [][NextConc]_vars

\* Logins against a user store that registrations in flight are filling.
\* login_user scans users_db once and writes nothing, so it is one step.
NextLogin ==
    \/ ConcRegisterCheck
    \/ ConcRegisterAppend
    \/ Login

SpecLogin == Init /\ [][NextLogin]_vars

(***************************************************************************)
(* Properties                                                              *)
(***************************************************************************)
\* Some record of db has this email.
HasEmail(db, email) == \E i \in 1..Len(db) : db[i].email = email

\* No two records of db share an email.
EmailsUnique(db) ==
    \A i, j \in 1..Len(db) : db[i].email = db[j].email => i = j

\* The first record of db with this email (there is one).
FirstWithEmail(db, email) ==
    db[CHOOSE i \in 1..Len(db) :
          /\ db[i].email = email
          /\ \A j \in 1..(i - 1) : db[j].email # email]

\* earlier is a prefix of later.
IsPrefix(earlier, later) ==
    /\ Len(earlier) <= Len(later)
    /\ \A i \in 1..Len(earlier) : later[i] = earlier[i]

\* The positions of the records of db with this email, in list order.
RECURSIVE PositionsOf(_, _, _)
PositionsOf(db, email, from) ==
    IF from > Len(db) THEN <<>>
    ELSE IF db[from].email = email
    THEN <<from>> \o PositionsOf(db, email, from + 1)
    ELSE PositionsOf(db, email, from + 1)

\* C1: with one request at a time the user store never holds two records
\* of one email: a /register whose email is already stored answers 400 and
\* leaves the store as it is, every other /register answers 200 and appends
\* exactly its own record.
C1_RegisterKeepsEmailsUnique ==
    /\ EmailsUnique(users_db)
    /\ \A user \in User :
         LET out == register_user(users_db, reports_db, user)
         IN  /\ out.reports_db = reports_db
             /\ IF HasEmail(users_db, user.email)
                THEN out.resp.status = 400 /\ out.users_db = users_db
                ELSE /\ out.resp.status = 200
                     /\ out.users_db = Append(users_db, user)

\* C1 witness: a second registration of a stored email was just refused
\* while another email is stored too.
C1_Witness ==
    /\ resp.op = "register"
    /\ resp.status = 400
    /\ Len(users_db) = 2

\* C2: /login answers 401 exactly when no record has the email or the first
\* record with the email has another password, and then the body holds only
\* the error detail; otherwise it answers 200 with exactly name, email, role
\* and location of that first record.  Both stores stay as they are.
C2_LoginFirstMatch ==
    \A user \in UserLogin :
      LET out == login_user(users_db, reports_db, user)
          rejected ==
            \/ ~HasEmail(users_db, user.email)
            \/ FirstWithEmail(users_db, user.email).password # user.password
      IN  /\ out.users_db = users_db
          /\ out.reports_db = reports_db
          /\ out.resp.status \in {200, 401}
          /\ out.resp.status = 401 <=> rejected
          /\ rejected => DOMAIN out.resp.body = {"detail"}
          /\ ~rejected =>
               LET first == FirstWithEmail(users_db, user.email)
               IN  /\ DOMAIN out.resp.body = {"message", "user"}
                   /\ out.resp.body.user =
                        [name |-> first.name, email |-> first.email,
                         role |-> first.role, location |-> first.location]

\* C2 witness: a login succeeded on an email stored twice with two
\* passwords.
C2_Witness ==
    /\ resp.op = "login"
    /\ resp.status = 200
    /\ \E i, j \in 1..Len(users_db) :
         /\ i < j
         /\ users_db[i].email = resp.body.user.email
         /\ users_db[j].email = resp.body.user.email
         /\ users_db[i].password # users_db[j].password

\* C3: a /report whose email no user record has answers 404, whatever its
\* other fields are, and leaves both stores as they are.
C3_UnknownEmailNotFound ==
    \A report \in Report :
      ~HasEmail(users_db, report.email) =>
        LET out == submit_report(users_db, reports_db, report)
        IN  /\ out.resp.status = 404
            /\ out.reports_db = reports_db
            /\ out.users_db = users_db

\* C3 witness: a submission was just answered 404 while some other user is
\* registered.
C3_Witness ==
    /\ resp.op = "report"
    /\ resp.status = 404
    /\ users_db # <<>>

\* C4 as stated: for a stored email, /report answers 400 exactly when the
\* conditional field of its type is absent (None), and otherwise appends
\* the record as given.
C4_RejectedExactlyWhenAbsent ==
    \A report \in Report :
      HasEmail(users_db, report.email) =>
        LET out == submit_report(users_db, reports_db, report)
        IN  IF \/ report.type = "authority" /\ report.category = None
               \/ report.type = "community" /\ report.alertLevel = None
            THEN out.resp.status = 400 /\ out.reports_db = reports_db
            ELSE /\ out.resp.status = 200
                 /\ out.reports_db = Append(reports_db, report)

\* C4 amended: for a stored email, /report answers 400 exactly when the
\* conditional field of its type is absent or the empty text, and otherwise
\* appends the record as given at the end of the report store.
C4_RejectedWhenAbsentOrEmpty ==
    \A report \in Report :
      HasEmail(users_db, report.email) =>
        LET out == submit_report(users_db, reports_db, report)
        IN  /\ out.users_db = users_db
            /\ IF \/ /\ report.type = "authority"
                     /\ report.category \in {None, ""}
                  \/ /\ report.type = "community"
                     /\ report.alertLevel \in {None, ""}
               THEN out.resp.status = 400 /\ out.reports_db = reports_db
               ELSE /\ out.resp.status = 200
                    /\ out.reports_db = Append(reports_db, report)

\* C4 witness: a submission for a stored email was just refused with 400
\* after an earlier one was stored.
C4_Witness ==
    /\ resp.op = "report"
    /\ resp.status = 400
    /\ reports_db # <<>>

\* C5: whatever reports were submitted, /reports answers 200 with one
\* summary per stored report in insertion order: the i-th has id i, the
\* i-th report's issue as title, its category, location and description,
\* and seriousness "Moderate" (no stored report has a seriousness).
C5_ReportsListsEveryReport ==
    LET out == get_all_reports(users_db, reports_db)
    IN  /\ out.resp.status = 200
        /\ Len(out.resp.body.items) = Len(reports_db)
        /\ \A i \in 1..Len(reports_db) :
             out.resp.body.items[i] =
               [id |-> i,
                title |-> reports_db[i].issue,
                category |-> reports_db[i].category,
                location |-> reports_db[i].location,
                seriousness |-> "Moderate",
                description |-> reports_db[i].description]

\* C6: whatever reports were submitted, /user-dashboard for an email A
\* answers 200 with totalReports = the number N of A's reports, resolved +
\* unresolved = total, and a reportHistory of A's reports in insertion
\* order with ids 1..N; zero counts and empty lists when A has no report.
C6_UserDashboardCountsOwnReports ==
    \A email \in Emails :
      LET out == get_user_dashboard(users_db, reports_db, email)
          own == PositionsOf(reports_db, email, 1)
      IN  /\ out.resp.status = 200
          /\ out.resp.body.userStats.totalReports = Len(own)
          /\ out.resp.body.userStats.resolvedReports
               + out.resp.body.userStats.unresolvedReports = Len(own)
          /\ Len(out.resp.body.reportHistory) = Len(own)
          /\ \A k \in 1..Len(own) :
               /\ out.resp.body.reportHistory[k].id = k
               /\ out.resp.body.reportHistory[k].title
                    = reports_db[own[k]].issue
          /\ own = <<>> => out.resp.body.notifications = <<>>

\* C7: in every state of the report store /authority-dashboard answers 200
\* with exactly the buckets Low, Moderate, High, Critical in that order,
\* whose counts sum to totalReports, the number of stored reports.
C7_FourBucketsSumToTotal ==
    LET out == get_authority_dashboard(users_db, reports_db)
        buckets == out.resp.body.issuesBySeriousness
    IN  /\ out.resp.status = 200
        /\ [k \in 1..Len(buckets) |-> buckets[k].seriousness]
             = <<"Low", "Moderate", "High", "Critical">>
        /\ buckets[1].count + buckets[2].count + buckets[3].count
             + buckets[4].count = out.resp.body.globalStats.totalReports
        /\ out.resp.body.globalStats.totalReports = Len(reports_db)

\* What C8 says of one state: no stored report has a date; the authority
\* dashboard answers 200 on the empty store and fails with an uncaught
\* error (500) on every other; it leaves both stores as they are.
AuthorityDashboardFailsUnlessEmpty(users, reports) ==
    LET out == get_authority_dashboard(users, reports)
    IN  /\ \A i \in 1..Len(reports) : "date" \notin DOMAIN reports[i]
        /\ reports = <<>> => out.resp.status = 200
        /\ reports # <<>> => out.resp.status = 500
        /\ out.users_db = users
        /\ out.reports_db = reports

\* C8: /authority-dashboard fails whenever a stored report lacks a date,
\* which every stored report does; the report store only grows, so from the
\* first successful submission on every call fails, and the dashboard
\* succeeds only on the empty store.  A call changes neither store.
C8_AuthorityDashboardFailsAfterFirstReport ==
    /\ [](AuthorityDashboardFailsUnlessEmpty(users_db, reports_db))
    /\ [][IsPrefix(reports_db, reports_db')]_vars

\* C8 witness: the dashboard was just called on a non-empty store whose
\* reports all have a category text, and failed.
C8_Witness ==
    /\ resp.op = "authority-dashboard"
    /\ resp.status = 500
    /\ reports_db # <<>>
    /\ \A i \in 1..Len(reports_db) : reports_db[i].category = "Roads"

\* Requests p and q both registered this email with success.
BothRegistered(p, q) ==
    /\ p # q
    /\ inflight[p] = Done("register", inflight[p].arg, 200)
    /\ inflight[q] = Done("register", inflight[q].arg, 200)
    /\ inflight[p].arg.email = inflight[q].arg.email

\* C9: the check and the append of /register are separate steps: a request
\* that passed the check always appends and answers 200, whatever was
\* appended in between, so two requests of one email that both pass the
\* check both succeed and leave two records of that email in the store.
C9_RacingRegistersBothSucceed ==
    /\ [][\A t \in 1..NumRequests :
            (inflight[t].pc = "reg_append" /\ inflight'[t].pc # "reg_append")
              => /\ inflight'[t].status = 200
                 /\ users_db' = Append(users_db, inflight[t].arg)]_vars
    /\ [](\A p, q \in 1..NumRequests :
            BothRegistered(p, q) =>
              \E i, j \in 1..Len(users_db) :
                 /\ i < j
                 /\ users_db[i].email = inflight[p].arg.email
                 /\ users_db[j].email = inflight[p].arg.email)

\* C9 witness: two requests registered one email with success and the
\* store holds two records of one email.
C9_Witness ==
    /\ \E p, q \in 1..NumRequests : BothRegistered(p, q)
    /\ ~EmailsUnique(users_db)

\* Every stored report has the email of some stored user.
ReferentialIntegrity(users, reports) ==
    \A i \in 1..Len(reports) : HasEmail(users, reports[i].email)

\* C10: under every interleaving each stored report has the email of a
\* stored user, and both stores only grow: the store before a step is a
\* prefix of the store after it.
C10_ReferentialIntegrity ==
    /\ [](ReferentialIntegrity(users_db, reports_db))
    /\ [][/\ IsPrefix(users_db, users_db')
          /\ IsPrefix(reports_db, reports_db')]_vars

\* C10 witness: a report is stored while another request is between its
\* check and its append.
C10_Witness ==
    /\ reports_db # <<>>
    /\ \E t \in 1..NumRequests : inflight[t].pc \in {"reg_append", "rep_append"}

====
